---- MODULE Spec2Model ----
(***************************************************************************)
(* Channel pruning of a computation graph (qonnx/transformation/pruning.py) *)
(* as a state machine: the graph (nodes, tensors with shape, initializer    *)
(* and sparsity mask), the prune spec, and the four transformations         *)
(* ApplyMasks, PropagateMasks, RemoveMaskedChannels and PruneChannels,      *)
(* stepped one prune-spec entry, one node or one tensor visit at a time.    *)
(*                                                                          *)
(* A mask element is a pair <<kind, n>>: <<"p", n>> is the Python int n,    *)
(* <<"i", n>> the string "in" and <<"o", n>> the string "on".  A stored     *)
(* mask is [kind, elems]: kind "none" is None (no annotation), "set" is a   *)
(* Python set and "dict" is the empty dict {} that RemoveMaskedChannels     *)
(* writes.  An initializer is kept as its per-axis lists of surviving       *)
(* original indices, which is exactly what np.delete along an axis keeps.   *)
(***************************************************************************)
EXTENDS Integers, Sequences, FiniteSets, TLC

\* Top-level calls one behaviour makes.
MaxCalls == 3
\* Entries of a prune spec.
MaxSpecLen == 2

VARIABLES
    scen,        \* name of the graph the behaviour started from
    nodes,       \* model.graph.node: sequence of node records
    tens,        \* tensor name -> [shape, init, axes, mask]
    prune_spec,  \* sequence of [key, val] in dict order
    pc,          \* "idle", "apply", "prop", "remove", "ret", "failed"
    inPrune,     \* the running stage was started by PruneChannels.apply
    idx, jdx,    \* position: entry / node index, and tensor index in the node
    need_rerun,  \* the running stage's need_rerun local
    flags,       \* flag returned by the last run of each stage
    lastCall,    \* the last top-level call that returned
    result,      \* the flag that call returned
    err,         \* [stage, type] of the exception that ended the failed call
    calls,       \* top-level calls started
    rounds,      \* consecutive PruneChannels cycles a change-driven driver ran
    callPre,     \* [tens, nodes] when the running top-level call started
    stagePre,    \* tens when the running stage started
    stepPre      \* [tens, node] before the last PropagateMasks node step

vars == <<scen, nodes, tens, prune_spec, pc, inPrune, idx, jdx, need_rerun,
          flags, lastCall, result, err, calls, rounds, callPre, stagePre, stepPre>>

----------------------------------------------------------------------------
(* Values *)

NoMask == [kind |-> "none", elems |-> {}]
SetMask(S) == [kind |-> "set", elems |-> S]
\* the {} literal of line 237
EmptyDict == [kind |-> "dict", elems |-> {}]

P(n) == <<"p", n>>
I(n) == <<"i", n>>
O(n) == <<"o", n>>

Iota(n) == [k \in 1..n |-> k - 1]
Lens(axes) == [k \in 1..Len(axes) |-> Len(axes[k])]

Dyn(shape) == [shape |-> shape, init |-> FALSE, axes |-> <<>>, mask |-> NoMask]
Const(shape) ==
    [shape |-> shape, init |-> TRUE,
     axes |-> [k \in 1..Len(shape) |-> Iota(shape[k])], mask |-> NoMask]

Node(op, ins, outs) ==
    [op_type |-> op, input |-> ins, output |-> outs, hasgroup |-> FALSE, group |-> 0]
ConvNode(ins, outs, g) ==
    [op_type |-> "Conv", input |-> ins, output |-> outs, hasgroup |-> TRUE, group |-> g]

eltwise_ops_bidirectional == {"Mul", "Div", "MultiThreshold", "Quant", "Relu"}
eltwise_ops_bwdonly == {"Add", "Sub", "BatchNormalization"}

RECURSIVE Prod(_)
Prod(s) == IF s = <<>> THEN 1 ELSE Head(s) * Prod(Tail(s))

RECURSIVE UnionAll(_)
UnionAll(s) == IF s = <<>> THEN {} ELSE Head(s) \cup UnionAll(Tail(s))

Min(a, b) == IF a < b THEN a ELSE b

\* the int set / string sets a weight mask decodes to (lines 111-112, 205-206)
Ints(S) == {e[2] : e \in {x \in S : x[1] = "p"}}
InSide(S) == {e[2] : e \in {x \in S : x[1] = "i"}}
OutSide(S) == {e[2] : e \in {x \in S : x[1] = "o"}}
\* every channel index a mask names, whatever its encoding
Chans(S) == {e[2] : e \in S}

----------------------------------------------------------------------------
(* Pure functions *)

\* positions deleted one after the other, smallest first, each counted in
\* the array the deletions before it left
RECURSIVE KeepSeq_one_by_one(_, _)
KeepSeq_one_by_one(seq, idxs) ==
    IF idxs = {} THEN seq
    ELSE LET i == CHOOSE x \in idxs : \A y \in idxs : x <= y
         IN  KeepSeq_one_by_one(SubSeq(seq, 1, i) \o SubSeq(seq, i + 2, Len(seq)),
                                idxs \ {i})

\* np.delete's survivors: seq without the positions (0-based) in idxs
KeepSeq(seq, idxs) ==
    LET F[k \in 0..Len(seq)] ==
            IF k = 0 THEN <<>>
            ELSE IF (k - 1) \in idxs THEN F[k - 1] ELSE Append(F[k - 1], seq[k])
    IN F[Len(seq)]

\* remove_masked_tensor_channels on an array given by its axes; mask is a set
\* of mask elements, axis is 0-based.  [err, val]: err names the exception
\* np.delete raises ("none": no exception) and val is the returned array.
remove_masked_tensor_channels(axes, mask, axis) ==
    IF Len(axes) = 0 \/ Prod(Lens(axes)) = 1
    THEN [err |-> "none", val |-> axes]
    ELSE IF axis + 1 > Len(axes)
    THEN [err |-> "AxisError", val |-> axes]
    ELSE IF \E e \in mask : e[1] # "p" \/ e[2] >= Len(axes[axis + 1])
    THEN [err |-> "IndexError", val |-> axes]
    ELSE [err |-> "none",
          val |-> [axes EXCEPT ![axis + 1] = KeepSeq(@, Ints(mask))]]

\* the shape-only call (lines 67-69, 76-77): a random array of that shape
remove_masked_shape(shape, mask, axis) ==
    LET r == remove_masked_tensor_channels([k \in 1..Len(shape) |-> Iota(shape[k])],
                                           mask, axis)
    IN [err |-> r.err, val |-> Lens(r.val)]

\* ensure_masktype_is_set: the set, or "raise" for anything but a set or None
ensure_masktype_is_set(mask) ==
    IF mask.kind = "dict" THEN [err |-> "Exception", val |-> {}]
    ELSE [err |-> "none", val |-> mask.elems]

\* the weight mask written without its input-side entries
new_w_mask_outputs_only(is_depthwise, mask_in, mask_out) ==
    {O(x) : x \in Ints(mask_out)}

\* the new weight mask of a MatMul/Conv node (lines 118-125)
new_w_mask(is_depthwise, mask_in, mask_out) ==
    IF is_depthwise
    THEN {O(x) : x \in Ints(mask_out)}
    ELSE {I(x) : x \in Ints(mask_in)} \cup {O(x) : x \in Ints(mask_out)}

\* a depthwise Conv treated as a dense one: input and output left decoupled
update_dotprod_mask_uncoupled(node, masks_in, masks_out) ==
    IF node.op_type = "Conv" /\ ~node.hasgroup
    THEN [err |-> "AttributeError", in |-> masks_in, out |-> masks_out]
    ELSE IF Len(masks_in) < 2 \/ Len(masks_out) < 1
    THEN [err |-> "IndexError", in |-> masks_in, out |-> masks_out]
    ELSE
    LET is_depthwise == node.op_type = "Conv" /\ node.group > 1
        w_mask == masks_in[2]
        mask_in == {P(x) : x \in InSide(w_mask)} \cup masks_in[1]
        mask_out == {P(x) : x \in OutSide(w_mask)} \cup masks_out[1]
    IN  IF \E x \in w_mask : x[1] = "p"
        THEN [err |-> "AttributeError", in |-> masks_in, out |-> masks_out]
        ELSE IF \E x \in mask_in \cup mask_out : x[1] # "p"
        THEN [err |-> "TypeError", in |-> masks_in, out |-> masks_out]
        ELSE [err |-> "none",
              in |-> <<mask_in, new_w_mask(is_depthwise, mask_in, mask_out)>>,
              out |-> <<mask_out>>]

\* lines 96-127 of update_node_mask; masks are sequences of element sets
update_dotprod_mask(node, masks_in, masks_out) ==
    IF node.op_type = "Conv" /\ ~node.hasgroup
    THEN [err |-> "AttributeError", in |-> masks_in, out |-> masks_out]
    ELSE IF Len(masks_in) < 2 \/ Len(masks_out) < 1
    THEN [err |-> "IndexError", in |-> masks_in, out |-> masks_out]
    ELSE
    LET is_depthwise == node.op_type = "Conv" /\ node.group > 1
        w_mask == masks_in[2]
        i_mask == masks_in[1]
        o_mask == masks_out[1]
        mask_in0 == {P(x) : x \in InSide(w_mask)} \cup i_mask
        mask_out0 == {P(x) : x \in OutSide(w_mask)} \cup o_mask
        mask_in == IF is_depthwise THEN mask_in0 \cup mask_out0 ELSE mask_in0
        mask_out == IF is_depthwise THEN mask_in ELSE mask_out0
    IN  IF \E x \in w_mask : x[1] = "p"
        THEN \* x.startswith on an int
             [err |-> "AttributeError", in |-> masks_in, out |-> masks_out]
        ELSE IF \E x \in (IF is_depthwise THEN mask_out ELSE mask_in \cup mask_out) :
                    x[1] # "p"
        THEN \* "i%d" % x on a string
             [err |-> "TypeError", in |-> masks_in, out |-> masks_out]
        ELSE [err |-> "none",
              in |-> <<mask_in, new_w_mask(is_depthwise, mask_in, mask_out)>>,
              out |-> <<mask_out>>]

\* update_node_mask taking the union over the inputs only
update_node_mask_inputs_only(node, masks_in, masks_out) ==
    LET ret == UnionAll(masks_in)
    IN  IF node.op_type \in eltwise_ops_bidirectional
        THEN [err |-> "none",
              in |-> [k \in 1..Len(masks_in) |-> ret],
              out |-> [k \in 1..Len(masks_out) |-> ret]]
        ELSE IF node.op_type \in eltwise_ops_bwdonly
        THEN [err |-> "none",
              in |-> [k \in 1..Len(masks_in) |-> ret],
              out |-> masks_out]
        ELSE IF node.op_type \in {"MatMul", "Conv"}
        THEN update_dotprod_mask(node, masks_in, masks_out)
        ELSE [err |-> "none", in |-> masks_in, out |-> masks_out]

\* update_node_mask leaving the outputs of every elementwise node alone
update_node_mask_outputs_kept(node, masks_in, masks_out) ==
    LET ret == UnionAll(masks_in) \cup UnionAll(masks_out)
    IN  IF node.op_type \in eltwise_ops_bidirectional \cup eltwise_ops_bwdonly
        THEN [err |-> "none",
              in |-> [k \in 1..Len(masks_in) |-> ret],
              out |-> masks_out]
        ELSE IF node.op_type \in {"MatMul", "Conv"}
        THEN update_dotprod_mask(node, masks_in, masks_out)
        ELSE [err |-> "none", in |-> masks_in, out |-> masks_out]

\* update_node_mask writing the union to the outputs of every elementwise node
update_node_mask_outputs_written(node, masks_in, masks_out) ==
    LET ret == UnionAll(masks_in) \cup UnionAll(masks_out)
    IN  IF node.op_type \in eltwise_ops_bidirectional \cup eltwise_ops_bwdonly
        THEN [err |-> "none",
              in |-> [k \in 1..Len(masks_in) |-> ret],
              out |-> [k \in 1..Len(masks_out) |-> ret]]
        ELSE IF node.op_type \in {"MatMul", "Conv"}
        THEN update_dotprod_mask(node, masks_in, masks_out)
        ELSE [err |-> "none", in |-> masks_in, out |-> masks_out]

\* update_node_mask handing every elementwise node's input masks to its
\* outputs and its output masks to its inputs
update_node_mask_swapping(node, masks_in, masks_out) ==
    IF node.op_type \in eltwise_ops_bidirectional \cup eltwise_ops_bwdonly
    THEN [err |-> "none",
          in |-> [k \in 1..Len(masks_in) |-> UnionAll(masks_out)],
          out |-> [k \in 1..Len(masks_out) |-> UnionAll(masks_in)]]
    ELSE IF node.op_type \in {"MatMul", "Conv"}
    THEN update_dotprod_mask(node, masks_in, masks_out)
    ELSE [err |-> "none", in |-> masks_in, out |-> masks_out]

\* update_node_mask treating an operator it does not know as a bidirectional
\* elementwise one
update_node_mask_unknown_as_eltwise(node, masks_in, masks_out) ==
    LET ret == UnionAll(masks_in) \cup UnionAll(masks_out)
    IN  IF node.op_type \in eltwise_ops_bwdonly
        THEN [err |-> "none",
              in |-> [k \in 1..Len(masks_in) |-> ret],
              out |-> masks_out]
        ELSE IF node.op_type \in {"MatMul", "Conv"}
        THEN update_dotprod_mask(node, masks_in, masks_out)
        ELSE [err |-> "none",
              in |-> [k \in 1..Len(masks_in) |-> ret],
              out |-> [k \in 1..Len(masks_out) |-> ret]]

\* update_node_mask on already-normalised masks
update_node_mask(node, masks_in, masks_out) ==
    LET ret == UnionAll(masks_in) \cup UnionAll(masks_out)
    IN  IF node.op_type \in eltwise_ops_bidirectional
        THEN [err |-> "none",
              in |-> [k \in 1..Len(masks_in) |-> ret],
              out |-> [k \in 1..Len(masks_out) |-> ret]]
        ELSE IF node.op_type \in eltwise_ops_bwdonly
        THEN [err |-> "none",
              in |-> [k \in 1..Len(masks_in) |-> ret],
              out |-> masks_out]
        ELSE IF node.op_type \in {"MatMul", "Conv"}
        THEN update_dotprod_mask(node, masks_in, masks_out)
        ELSE [err |-> "none", in |-> masks_in, out |-> masks_out]

----------------------------------------------------------------------------
(* The model store: per-tensor get/set and node lookup *)

get_initializer(t, name) == t[name].init
get_tensor_shape(t, name) == t[name].shape
get_tensor_sparsity(t, name) == t[name].mask
set_tensor_sparsity(t, name, mask) == [t EXCEPT ![name].mask = mask]
set_tensor_shape(t, name, shape) == [t EXCEPT ![name].shape = shape]
set_initializer(t, name, axes) ==
    [t EXCEPT ![name].axes = axes, ![name].shape = Lens(axes)]

\* index of the first node that reads the tensor, 0 for None
find_consumer(ns, key) ==
    LET c == {k \in 1..Len(ns) : \E j \in 1..Len(ns[k].input) : ns[k].input[j] = key}
    IN IF c = {} THEN 0 ELSE CHOOSE k \in c : \A m \in c : k <= m

\* model.transform(T) applies T again after T.apply returned this flag
transform_again(changed) == FALSE

\* shapes, initializers and node attributes: everything but the masks
Data(t, ns) ==
    [shapes |-> [n \in DOMAIN t |-> t[n].shape],
     inits |-> [n \in DOMAIN t |-> t[n].axes],
     groups |-> [k \in 1..Len(ns) |-> ns[k].group]]
Masks(t) == [n \in DOMAIN t |-> t[n].mask]

----------------------------------------------------------------------------
(* Graphs and prune specs the behaviours start from *)

ChainTensors ==
    [X |-> Dyn(<<1, 4, 3, 3>>), W1 |-> Const(<<8, 4, 3, 3>>),
     Y |-> Dyn(<<1, 8, 1, 1>>), Z |-> Dyn(<<1, 8, 1, 1>>),
     W2 |-> Const(<<8, 6>>), Out |-> Dyn(<<1, 6>>)]
ChainNodes ==
    <<ConvNode(<<"X", "W1">>, <<"Y">>, 1),
      Node("Relu", <<"Y">>, <<"Z">>),
      Node("MatMul", <<"Z", "W2">>, <<"Out">>)>>
ChainEntries ==
    {[key |-> "W1", val |-> SetMask({O(1), O(3)})],
     [key |-> "W1", val |-> SetMask({P(1), P(2)})],
     [key |-> "W1", val |-> SetMask({I(1), P(2)})],
     [key |-> "X", val |-> SetMask({P(1)})],
     [key |-> "Z", val |-> SetMask({P(2)})]}

DwTensors ==
    [X |-> Dyn(<<1, 4, 2, 2>>), Wd |-> Const(<<4, 1, 3, 3>>),
     Y |-> Dyn(<<1, 4, 2, 2>>), Z |-> Dyn(<<1, 4, 2, 2>>)]
DwNodes ==
    <<ConvNode(<<"X", "Wd">>, <<"Y">>, 4),
      Node("Relu", <<"Y">>, <<"Z">>)>>
DwEntries ==
    {[key |-> "Wd", val |-> SetMask({I(1)})],
     [key |-> "Wd", val |-> SetMask({O(2)})],
     [key |-> "Z", val |-> SetMask({P(1)})],
     [key |-> "X", val |-> SetMask({P(0)})]}

BiasTensors ==
    [X |-> Dyn(<<1, 2, 2, 2>>), W |-> Const(<<2, 2, 1, 1>>),
     B |-> Const(<<2>>), Y |-> Dyn(<<1, 2, 2, 2>>)]
BiasNodes == <<ConvNode(<<"X", "W", "B">>, <<"Y">>, 1)>>
BiasEntries == {[key |-> "W", val |-> SetMask({O(1)})]}

DynWTensors ==
    [X |-> Dyn(<<1, 2>>), V |-> Dyn(<<2, 2>>), Y |-> Dyn(<<1, 2>>)]
DynWNodes == <<Node("MatMul", <<"X", "V">>, <<"Y">>)>>
DynWEntries == {[key |-> "X", val |-> SetMask({P(1)})]}

TinyTensors == [X |-> Dyn(<<1, 1>>), Y |-> Dyn(<<1, 1>>)]
TinyNodes == <<Node("Relu", <<"X">>, <<"Y">>)>>
TinyEntries ==
    {[key |-> "X", val |-> SetMask({P(0)})],
     [key |-> "Y", val |-> SetMask({P(0)})]}

EltTensors ==
    [X |-> Dyn(<<1, 3, 2, 2>>), B |-> Const(<<1, 3, 1, 1>>),
     Y |-> Dyn(<<1, 3, 2, 2>>), Z |-> Dyn(<<1, 3, 2, 2>>)]
EltNodes ==
    <<Node("Add", <<"X", "B">>, <<"Y">>),
      Node("Sigmoid", <<"Y">>, <<"Z">>)>>
EltEntries ==
    {[key |-> "X", val |-> SetMask({P(0)})],
     [key |-> "Y", val |-> SetMask({P(1)})],
     [key |-> "Z", val |-> SetMask({P(2)})]}

MmTensors ==
    [X |-> Dyn(<<1, 8>>), W |-> Const(<<8, 4>>), Y |-> Dyn(<<1, 4>>)]
MmNodes == <<Node("MatMul", <<"X", "W">>, <<"Y">>)>>
MmEntries ==
    {[key |-> "W", val |-> SetMask({I(2), O(1)})],
     [key |-> "Y", val |-> SetMask({P(3)})]}

Mm1Tensors ==
    [X |-> Dyn(<<1, 2>>), W |-> Const(<<2, 1>>), Y |-> Dyn(<<1, 1>>)]
Mm1Nodes == <<Node("MatMul", <<"X", "W">>, <<"Y">>)>>
Mm1Entries ==
    {[key |-> "W", val |-> SetMask({I(1), O(0)})],
     [key |-> "Y", val |-> SetMask({P(0)})]}

\* one weight read by a dense Conv and by a depthwise Conv
SharedTensors ==
    [X |-> Dyn(<<1, 1, 2, 2>>), W |-> Const(<<2, 1, 1, 1>>),
     Y |-> Dyn(<<1, 2, 2, 2>>), Z |-> Dyn(<<1, 2, 2, 2>>)]
SharedNodes ==
    <<ConvNode(<<"X", "W">>, <<"Y">>, 1),
      ConvNode(<<"Y", "W">>, <<"Z">>, 2)>>
SharedEntries ==
    {[key |-> "W", val |-> SetMask({I(0)})],
     [key |-> "W", val |-> SetMask({O(1)})]}

\* an operator outside the known set in the middle of the graph
OpqTensors ==
    [X |-> Dyn(<<1, 3>>), S |-> Const(<<1>>), Y |-> Dyn(<<1, 3>>),
     Z |-> Dyn(<<1, 3>>), Q |-> Dyn(<<1, 3>>)]
OpqNodes ==
    <<Node("Mul", <<"X", "S">>, <<"Y">>),
      Node("Sigmoid", <<"Y">>, <<"Z">>),
      Node("Relu", <<"Z">>, <<"Q">>)>>
OpqEntries ==
    {[key |-> "X", val |-> SetMask({P(1)})],
     [key |-> "Q", val |-> SetMask({P(2)})]}

Scenarios ==
    [chain |-> [tens |-> ChainTensors, nodes |-> ChainNodes, entries |-> ChainEntries],
     dw |-> [tens |-> DwTensors, nodes |-> DwNodes, entries |-> DwEntries],
     bias |-> [tens |-> BiasTensors, nodes |-> BiasNodes, entries |-> BiasEntries],
     dynw |-> [tens |-> DynWTensors, nodes |-> DynWNodes, entries |-> DynWEntries],
     tiny |-> [tens |-> TinyTensors, nodes |-> TinyNodes, entries |-> TinyEntries],
     elt |-> [tens |-> EltTensors, nodes |-> EltNodes, entries |-> EltEntries],
     mm |-> [tens |-> MmTensors, nodes |-> MmNodes, entries |-> MmEntries],
     mm1 |-> [tens |-> Mm1Tensors, nodes |-> Mm1Nodes, entries |-> Mm1Entries],
     shared |-> [tens |-> SharedTensors, nodes |-> SharedNodes, entries |-> SharedEntries],
     opq |-> [tens |-> OpqTensors, nodes |-> OpqNodes, entries |-> OpqEntries]]

\* prune specs: up to n entries with distinct keys (a dict), in any order
RECURSIVE PruneSpecs(_, _)
PruneSpecs(entries, n) ==
    IF n = 0 THEN {<<>>}
    ELSE LET S == PruneSpecs(entries, n - 1)
         IN S \cup {Append(s, e) :
                      <<s, e>> \in {q \in S \X entries :
                                      /\ Len(q[1]) = n - 1
                                      /\ \A k \in 1..Len(q[1]) : q[1][k].key # q[2].key}}

Init ==
    /\ scen \in DOMAIN Scenarios
    /\ nodes = Scenarios[scen].nodes
    /\ tens = Scenarios[scen].tens
    /\ prune_spec \in PruneSpecs(Scenarios[scen].entries, MaxSpecLen)
    /\ pc = "idle"
    /\ inPrune = FALSE
    /\ idx = 1
    /\ jdx = 1
    /\ need_rerun = FALSE
    /\ flags = [apply |-> FALSE, prop |-> FALSE, remove |-> FALSE]
    /\ lastCall = "none"
    /\ result = FALSE
    /\ err = [stage |-> "none", type |-> "none"]
    /\ calls = 0
    /\ rounds = 0
    /\ callPre = [tens |-> tens, nodes |-> nodes]
    /\ stagePre = [tens |-> tens, nodes |-> nodes]
    /\ stepPre = [tens |-> tens, k |-> 0]

----------------------------------------------------------------------------
(* Calls, returns and exceptions *)

\* an exception leaves whatever was written so far and ends the call
Raise(e) ==
    /\ pc' = "failed"
    /\ err' = [stage |-> IF pc = "idle" THEN "check" ELSE pc, type |-> e]
    /\ UNCHANGED <<idx, jdx, need_rerun, flags, lastCall, result, inPrune>>

\* some stage of the last cycle reported a change
AnyChanged == flags.apply \/ flags.prop \/ flags.remove

StartCall ==
    /\ pc = "idle"
    /\ calls < MaxCalls
    /\ calls' = calls + 1
    /\ callPre' = [tens |-> tens, nodes |-> nodes]
    /\ stagePre' = [tens |-> tens, nodes |-> nodes]

\* a direct call of ApplyMasks(prune_spec).apply
CallApplyMasks ==
    /\ StartCall
    /\ pc' = "apply" /\ idx' = 1 /\ inPrune' = FALSE /\ rounds' = 0
    /\ UNCHANGED <<scen, nodes, tens, prune_spec, jdx, need_rerun, flags,
                   lastCall, result, err, stepPre>>

\* a direct call of PropagateMasks().apply
CallPropagateMasks ==
    /\ StartCall
    /\ pc' = "prop" /\ idx' = 1 /\ inPrune' = FALSE /\ rounds' = 0
    /\ need_rerun' = FALSE
    /\ UNCHANGED <<scen, nodes, tens, prune_spec, jdx, flags,
                   lastCall, result, err, stepPre>>

\* a direct call of RemoveMaskedChannels().apply
CallRemoveMaskedChannels ==
    /\ StartCall
    /\ pc' = "remove" /\ idx' = 1 /\ jdx' = 1 /\ inPrune' = FALSE /\ rounds' = 0
    /\ need_rerun' = FALSE
    /\ UNCHANGED <<scen, nodes, tens, prune_spec, flags,
                   lastCall, result, err, stepPre>>

\* PruneChannels.apply, lines 251-261
convs_with_bias(ns) ==
    {k \in 1..Len(ns) : ns[k].op_type = "Conv" /\ Len(ns[k].input) = 3}
dotprod_nodes_dyn_w(ns, t) ==
    {k \in 1..Len(ns) : /\ ns[k].op_type \in {"Conv", "MatMul"}
                        /\ ~get_initializer(t, ns[k].input[2])}
\* the check of lines 257-261 left out
PrecheckFails_bias_only(ns, t) == convs_with_bias(ns) # {}
PrecheckFails(ns, t) ==
    convs_with_bias(ns) # {} \/ dotprod_nodes_dyn_w(ns, t) # {}

\* PruneChannels(prune_spec).apply up to its first transform; a driver that
\* repeats the cycle while a stage reported a change counts its rounds
PruneChannelsCheck ==
    /\ StartCall
    /\ rounds' = IF lastCall = "PruneChannels" /\ AnyChanged THEN rounds + 1 ELSE 1
    /\ IF PrecheckFails(nodes, tens)
       THEN Raise("AssertionError")
       ELSE /\ pc' = "apply" /\ idx' = 1 /\ inPrune' = TRUE
            /\ UNCHANGED <<jdx, need_rerun, flags, lastCall, result, err>>
    /\ UNCHANGED <<scen, nodes, tens, prune_spec, stepPre>>

----------------------------------------------------------------------------
(* ApplyMasks.apply, one prune-spec entry per step *)

\* lines 143-147: the entry names the constant weight of a Conv/MatMul
t_fc_cnv_w(ns, t, key) ==
    LET c == find_consumer(ns, key)
    IN  /\ c # 0
        /\ ns[c].op_type \in {"Conv", "MatMul"}
        /\ Len(ns[c].input) >= 2
        /\ ns[c].input[2] = key
        /\ get_initializer(t, key)

\* lines 148-150 with val_check the element list(val)[0] yields
val_check_error(val_check) ==
    IF val_check[1] = "p" THEN "AssertionError" ELSE "none"

\* the elements list(val)[0] can yield: any one, the order of a set being
\* the build's; <<"none", 0>> stands for the IndexError of an empty set
FirstOf(val) == IF val.elems = {} THEN {<<"none", 0>>} ELSE val.elems

ApplyMasksStep ==
    /\ pc = "apply"
    /\ idx <= Len(prune_spec)
    /\ LET key == prune_spec[idx].key
           val == prune_spec[idx].val
       IN  IF t_fc_cnv_w(nodes, tens, key)
           THEN \E val_check \in FirstOf(val) :
                  LET e == IF val_check[1] = "none" THEN "IndexError"
                           ELSE val_check_error(val_check)
                  IN  IF e # "none"
                      THEN Raise(e) /\ UNCHANGED tens
                      ELSE /\ tens' = set_tensor_sparsity(tens, key, val)
                           /\ idx' = idx + 1
                           /\ UNCHANGED <<pc, err, jdx, need_rerun, flags,
                                          lastCall, result, inPrune>>
           ELSE /\ tens' = set_tensor_sparsity(tens, key, val)
                /\ idx' = idx + 1
                /\ UNCHANGED <<pc, err, jdx, need_rerun, flags,
                               lastCall, result, inPrune>>
    /\ UNCHANGED <<scen, nodes, prune_spec, calls, rounds, callPre, stagePre, stepPre>>

\* the stages with the propagation sweep left out
next_stage_without_sweep(stage) ==
    CASE stage = "apply" -> "remove"
      [] stage = "prop" -> "remove"
      [] stage = "remove" -> "ret"

\* PruneChannels.apply, lines 262-264: the stage that follows each stage
next_stage(stage) ==
    CASE stage = "apply" -> "prop"
      [] stage = "prop" -> "remove"
      [] stage = "remove" -> "ret"

\* line 152, and the caller's next line
ApplyMasksReturn ==
    /\ pc = "apply"
    /\ idx > Len(prune_spec)
    /\ flags' = [flags EXCEPT !.apply = FALSE]
    /\ idx' = 1
    /\ IF inPrune
       THEN /\ pc' = IF transform_again(FALSE) THEN "apply" ELSE next_stage("apply")
            /\ need_rerun' = FALSE
            /\ stagePre' = [tens |-> tens, nodes |-> nodes]
            /\ UNCHANGED <<lastCall, result>>
       ELSE /\ pc' = "idle"
            /\ lastCall' = "ApplyMasks"
            /\ result' = FALSE
            /\ UNCHANGED <<need_rerun, stagePre>>
    /\ UNCHANGED <<scen, nodes, tens, prune_spec, inPrune, jdx, err, calls,
                   rounds, callPre, stepPre>>

----------------------------------------------------------------------------
(* PropagateMasks.apply, one node per step *)

MaskSeq(t, names) == [k \in 1..Len(names) |-> get_tensor_sparsity(t, names[k])]
ElemSeq(ms) == [k \in 1..Len(ms) |-> ensure_masktype_is_set(ms[k]).val]

\* lines 175-178: zip stops at the shorter list
WriteMasks(t, names, masks) ==
    LET n == Min(Len(names), Len(masks))
        F[k \in 0..n] ==
            IF k = 0 THEN t
            ELSE set_tensor_sparsity(F[k - 1], names[k], SetMask(masks[k]))
    IN F[n]

\* the change test with the comparison of the input lists left out
masks_changed_outputs_only(new_in, node_masks_in, new_out, node_masks_out) ==
    new_out # node_masks_out

\* the change test with the comparison of the output lists left out
masks_changed_inputs_only(new_in, node_masks_in, new_out, node_masks_out) ==
    new_in # node_masks_in

\* lines 171-174: the lists as recomputed against the lists as read
masks_changed(new_in, node_masks_in, new_out, node_masks_out) ==
    new_in # node_masks_in \/ new_out # node_masks_out

\* lines 164-178 for one node: [err, changed, tens]
PropagateNode(t, node) ==
    LET raw_in == MaskSeq(t, node.input)
        raw_out == MaskSeq(t, node.output)
        node_masks_in == ElemSeq(raw_in)
        node_masks_out == ElemSeq(raw_out)
        upd == update_node_mask(node, node_masks_in, node_masks_out)
    IN  IF \E k \in 1..Len(raw_in) : ensure_masktype_is_set(raw_in[k]).err # "none"
        THEN [err |-> "Exception", changed |-> FALSE, tens |-> t]
        ELSE IF \E k \in 1..Len(raw_out) : ensure_masktype_is_set(raw_out[k]).err # "none"
        THEN [err |-> "Exception", changed |-> FALSE, tens |-> t]
        ELSE IF upd.err # "none"
        THEN [err |-> upd.err, changed |-> FALSE, tens |-> t]
        ELSE [err |-> "none",
              changed |-> masks_changed(upd.in, node_masks_in,
                                        upd.out, node_masks_out),
              tens |-> WriteMasks(WriteMasks(t, node.input, upd.in),
                                  node.output, upd.out)]

PropagateMasksStep ==
    /\ pc = "prop"
    /\ idx <= Len(nodes)
    /\ LET r == PropagateNode(tens, nodes[idx])
       IN  IF r.err # "none"
           THEN Raise(r.err) /\ UNCHANGED <<tens, stepPre>>
           ELSE /\ tens' = r.tens
                /\ need_rerun' = (need_rerun \/ r.changed)
                /\ idx' = idx + 1
                /\ stepPre' = [tens |-> tens, k |-> idx]
                /\ UNCHANGED <<pc, err, jdx, flags, lastCall, result, inPrune>>
    /\ UNCHANGED <<scen, nodes, prune_spec, calls, rounds, callPre, stagePre>>

\* line 179, and the caller's next line
PropagateMasksReturn ==
    /\ pc = "prop"
    /\ idx > Len(nodes)
    /\ flags' = [flags EXCEPT !.prop = need_rerun]
    /\ idx' = 1
    /\ jdx' = 1
    /\ need_rerun' = FALSE
    /\ IF inPrune
       THEN /\ pc' = IF transform_again(need_rerun) THEN "prop" ELSE next_stage("prop")
            /\ stagePre' = [tens |-> tens, nodes |-> nodes]
            /\ UNCHANGED <<lastCall, result>>
       ELSE /\ pc' = "idle"
            /\ lastCall' = "PropagateMasks"
            /\ result' = need_rerun
            /\ UNCHANGED stagePre
    /\ UNCHANGED <<scen, nodes, tens, prune_spec, inPrune, err, calls,
                   rounds, callPre, stepPre>>

----------------------------------------------------------------------------
(* RemoveMaskedChannels.apply, one tensor of one node per step *)

\* line 193: None, or equal to the dict {}; a set, even empty, is neither
mask_is_skipped(mask) == mask.kind = "none" \/ mask.kind = "dict"

PlainOf(S) == {P(x) : x \in S}

\* the MatMul weight with its axes taken as a Conv weight's are
remove_matmul_conv_axes(axes, mask) ==
    IF \E x \in mask : x[1] = "p"
    THEN [err |-> "AttributeError", val |-> axes]
    ELSE LET r1 == remove_masked_tensor_channels(axes, PlainOf(InSide(mask)), 1)
         IN  IF r1.err # "none" THEN r1
             ELSE remove_masked_tensor_channels(r1.val, PlainOf(OutSide(mask)), 0)

\* lines 205-210: the weight of a MatMul
remove_matmul(axes, mask) ==
    IF \E x \in mask : x[1] = "p"
    THEN [err |-> "AttributeError", val |-> axes]
    ELSE LET r1 == remove_masked_tensor_channels(axes, PlainOf(InSide(mask)), 0)
         IN  IF r1.err # "none" THEN r1
             ELSE remove_masked_tensor_channels(r1.val, PlainOf(OutSide(mask)), 1)

\* lines 212-228: the weight of a Conv; group is the node's new attribute
remove_conv(node, axes, mask) ==
    LET io_shp == Lens(axes)
        depthwise == node.group > 1
        r0 == [err |-> "none", val |-> axes, group |-> node.group]
    IN  IF \E x \in mask : x[1] = "p"
        THEN [r0 EXCEPT !.err = "AttributeError"]
        ELSE IF Len(io_shp) < 2
        THEN [r0 EXCEPT !.err = "IndexError"]
        ELSE IF ~node.hasgroup
        THEN [r0 EXCEPT !.err = "AttributeError"]
        ELSE IF ~(node.group = 1 \/ io_shp[2] = 1)
        THEN [r0 EXCEPT !.err = "AssertionError"]
        ELSE IF depthwise
        THEN LET r == remove_masked_tensor_channels(axes, PlainOf(OutSide(mask)), 0)
             IN  [err |-> r.err, val |-> r.val,
                  group |-> IF r.err = "none" THEN Len(r.val[1]) ELSE node.group]
        ELSE LET r1 == remove_masked_tensor_channels(axes, PlainOf(InSide(mask)), 1)
                 r2 == remove_masked_tensor_channels(r1.val, PlainOf(OutSide(mask)), 0)
             IN  IF r1.err # "none"
                 THEN [r0 EXCEPT !.err = r1.err]
                 ELSE [err |-> r2.err, val |-> r2.val, group |-> node.group]

\* lines 232-233: any other initializer
remove_plain(axes, mask) ==
    remove_masked_tensor_channels(axes, mask, IF Len(axes) >= 2 THEN 1 ELSE 0)

\* the mask left in place after its channels were removed
clear_mask_forgotten(t, name) == t

\* line 237
clear_mask(t, name) == set_tensor_sparsity(t, name, EmptyDict)

\* lines 190-240 for tensor ioname of node k: [err, tens, nodes]
RemoveTensor(t, ns, k, ioname) ==
    LET node == ns[k]
        mask == get_tensor_sparsity(t, ioname).elems
        fail(e) == [err |-> e, tens |-> t, nodes |-> ns]
    IN  IF ~get_initializer(t, ioname)
        THEN LET r == remove_masked_shape(get_tensor_shape(t, ioname), mask, 1)
             IN  IF r.err # "none" THEN fail(r.err)
                 ELSE [err |-> "none",
                       tens |-> clear_mask(set_tensor_shape(t, ioname, r.val), ioname),
                       nodes |-> ns]
        ELSE IF node.op_type = "MatMul"
        THEN LET r == remove_matmul(t[ioname].axes, mask)
             IN  IF r.err # "none" THEN fail(r.err)
                 ELSE [err |-> "none",
                       tens |-> clear_mask(set_initializer(t, ioname, r.val), ioname),
                       nodes |-> ns]
        ELSE IF node.op_type = "Conv"
        THEN LET r == remove_conv(node, t[ioname].axes, mask)
             IN  IF r.err # "none" THEN fail(r.err)
                 ELSE [err |-> "none",
                       tens |-> clear_mask(set_initializer(t, ioname, r.val), ioname),
                       nodes |-> [ns EXCEPT ![k].group = r.group]]
        ELSE LET r == remove_plain(t[ioname].axes, mask)
             IN  IF r.err # "none" THEN fail(r.err)
                 ELSE [err |-> "none",
                       tens |-> clear_mask(set_initializer(t, ioname, r.val), ioname),
                       nodes |-> ns]

IoNames(node) == node.input \o node.output

RemoveMaskedChannelsStep ==
    /\ pc = "remove"
    /\ idx <= Len(nodes)
    /\ LET names == IoNames(nodes[idx])
           ioname == names[jdx]
           last == jdx >= Len(names)
           r == RemoveTensor(tens, nodes, idx, ioname)
       IN  IF mask_is_skipped(get_tensor_sparsity(tens, ioname))
           THEN /\ idx' = IF last THEN idx + 1 ELSE idx
                /\ jdx' = IF last THEN 1 ELSE jdx + 1
                /\ UNCHANGED <<tens, nodes, need_rerun, pc, err, flags,
                               lastCall, result, inPrune>>
           ELSE IF r.err # "none"
           THEN Raise(r.err) /\ UNCHANGED <<tens, nodes>>
           ELSE /\ tens' = r.tens
                /\ nodes' = r.nodes
                /\ need_rerun' = TRUE
                /\ idx' = IF last THEN idx + 1 ELSE idx
                /\ jdx' = IF last THEN 1 ELSE jdx + 1
                /\ UNCHANGED <<pc, err, flags, lastCall, result, inPrune>>
    /\ UNCHANGED <<scen, prune_spec, calls, rounds, callPre, stagePre, stepPre>>

\* line 241, and the caller's next line
RemoveMaskedChannelsReturn ==
    /\ pc = "remove"
    /\ idx > Len(nodes)
    /\ flags' = [flags EXCEPT !.remove = need_rerun]
    /\ idx' = 1
    /\ jdx' = 1
    /\ need_rerun' = FALSE
    /\ IF inPrune
       THEN /\ pc' = IF transform_again(need_rerun) THEN "remove" ELSE next_stage("remove")
            /\ UNCHANGED <<lastCall, result>>
       ELSE /\ pc' = "idle"
            /\ lastCall' = "RemoveMaskedChannels"
            /\ result' = need_rerun
    /\ UNCHANGED <<scen, nodes, tens, prune_spec, inPrune, err, calls,
                   rounds, callPre, stagePre, stepPre>>

\* PruneChannels.apply, line 265
PruneChannelsReturn ==
    /\ pc = "ret"
    /\ pc' = "idle"
    /\ inPrune' = FALSE
    /\ lastCall' = "PruneChannels"
    /\ result' = FALSE
    /\ UNCHANGED <<scen, nodes, tens, prune_spec, idx, jdx, need_rerun, flags,
                   err, calls, rounds, callPre, stagePre, stepPre>>

Next ==
    \/ CallApplyMasks
    \/ CallPropagateMasks
    \/ CallRemoveMaskedChannels
    \/ PruneChannelsCheck
    \/ ApplyMasksStep
    \/ ApplyMasksReturn
    \/ PropagateMasksStep
    \/ PropagateMasksReturn
    \/ RemoveMaskedChannelsStep
    \/ RemoveMaskedChannelsReturn
    \/ PruneChannelsReturn

Spec == Init /\ [][Next]_vars

----------------------------------------------------------------------------
(* Properties *)

Referenced(ns) == {n \in DOMAIN tens : \E k \in 1..Len(ns) :
                      \E j \in 1..Len(IoNames(ns[k])) : IoNames(ns[k])[j] = n}

\* the chain graph seeded on the Conv weight, in its first PruneChannels cycle
ChainSeeded ==
    /\ scen = "chain"
    /\ prune_spec = <<[key |-> "W1", val |-> SetMask({O(1), O(3)})]>>
    /\ calls = 1 /\ rounds = 1

\* C1: for the chain Conv(group=1, weight [8,4,3,3]) -> Relu -> MatMul(weight
\* [8,6]) seeded with {o1, o3} on the Conv weight, one PruneChannels cycle
\* completes and leaves the Conv weight [6,4,3,3], the Relu input and output
\* with 6 channels on axis 1 and the MatMul weight [6,6] without its original
\* rows 1 and 3.
C1_EndToEnd ==
    ChainSeeded =>
        /\ pc # "failed"
        /\ pc = "idle" =>
            /\ tens["W1"].shape = <<6, 4, 3, 3>>
            /\ tens["W1"].axes[1] = <<0, 2, 4, 5, 6, 7>>
            /\ tens["Y"].shape = <<1, 6, 1, 1>>
            /\ tens["Z"].shape = <<1, 6, 1, 1>>
            /\ tens["W2"].shape = <<6, 6>>
            /\ tens["W2"].axes = <<<<0, 2, 4, 5, 6, 7>>, Iota(6)>>
            /\ tens["X"].shape = <<1, 4, 3, 3>>
            /\ tens["Out"].shape = <<1, 6>>
C1_Witness ==
    ChainSeeded /\ pc = "idle" /\ lastCall = "PruneChannels"
        /\ tens["W2"].shape = <<6, 6>>

\* C2: a second PruneChannels cycle with the same prune spec, run on the graph
\* a first completed cycle left, completes and leaves every tensor shape,
\* initializer and group attribute as the first cycle left it.
C2_SecondCycleNoChange ==
    (rounds = 2 /\ pc \in {"idle", "failed"}) =>
        /\ pc = "idle"
        /\ Data(tens, nodes) = Data(callPre.tens, callPre.nodes)

\* a PropagateMasks node step has just been taken on node k
JustStepped(k) == pc = "prop" /\ idx = k + 1 /\ stepPre.k = k
IsDepthwise(node) == node.op_type = "Conv" /\ node.hasgroup /\ node.group > 1
PropagateStepTaken == pc = "prop" /\ pc' = "prop" /\ idx' = idx + 1

\* C3 as stated: in every PropagateMasks node step every tensor's mask is a
\* superset of its value before the step, a depthwise Conv's weight included.
C3_MasksOnlyGrow ==
    [][PropagateStepTaken =>
         \A n \in DOMAIN tens : tens[n].mask.elems \subseteq tens'[n].mask.elems]_vars

\* C3 amended: in every PropagateMasks node step every tensor's mask is a
\* superset of its value before the step, except the weight of the depthwise
\* Conv being processed, whose mask becomes the output-side encoding of the
\* merged set; the channel indices a mask names never shrink for any tensor.
C3_MasksGrowButDepthwiseWeight ==
    [][PropagateStepTaken =>
         \A n \in DOMAIN tens :
            /\ Chans(tens[n].mask.elems) \subseteq Chans(tens'[n].mask.elems)
            /\ ~(IsDepthwise(nodes[idx]) /\ nodes[idx].input[2] = n)
                  => tens[n].mask.elems \subseteq tens'[n].mask.elems]_vars
C3_Witness ==
    /\ scen = "dw"
    /\ JustStepped(1)
    /\ I(1) \in stepPre.tens["Wd"].mask.elems
    /\ tens["Wd"].mask = SetMask({O(1)})
    /\ tens["X"].mask = SetMask({P(1)})

\* the channel count of a tensor: its extent on the channel axis
ChannelCount(shape) ==
    IF Len(shape) >= 2 THEN shape[2] ELSE IF Len(shape) = 1 THEN shape[1] ELSE 0
RECURSIVE SumOver(_, _)
SumOver(t, S) ==
    IF S = {} THEN 0
    ELSE LET n == CHOOSE x \in S : TRUE
         IN ChannelCount(t[n].shape) + SumOver(t, S \ {n})
TotalChannels(t) == SumOver(t, DOMAIN t)

\* C4: a driver that repeats the PruneChannels cycle while a stage of the
\* last cycle reported a change runs at most as many rounds as the graph it
\* started from has channels over all its tensors.
C4_RoundsBounded == rounds <= TotalChannels(Scenarios[scen].tens)

AllMasksEmpty(t) == \A n \in DOMAIN t : t[n].mask.elems = {}

\* C5: RemoveMaskedChannels called on a graph whose masks are all empty
\* (absent, an empty set, or the cleared value) changes no shape, initializer
\* or attribute and returns changed = false.
C5_RemovalIdempotent ==
    (pc = "idle" /\ lastCall = "RemoveMaskedChannels" /\ AllMasksEmpty(stagePre.tens)) =>
        /\ result = FALSE
        /\ Data(tens, nodes) = Data(stagePre.tens, stagePre.nodes)

\* a RemoveMaskedChannels pass has visited every node
RemovalPassDone == pc = "remove" /\ idx > Len(nodes)
\* a dynamic tensor that entered the pass with a non-empty mask
MaskedDynamic(n) ==
    /\ n \in Referenced(nodes)
    /\ ~stagePre.tens[n].init
    /\ stagePre.tens[n].mask.kind = "set"
    /\ stagePre.tens[n].mask.elems # {}
LostChannels(n) == stagePre.tens[n].shape[2] - tens[n].shape[2]

\* C6 as stated: when a RemoveMaskedChannels pass completes, every dynamic
\* tensor that entered it with a non-empty mask has lost exactly |mask|
\* entries on axis 1, however many nodes reference it, and every referenced
\* tensor's mask is empty.
C6_MaskConsumedOnce ==
    RemovalPassDone =>
        /\ \A n \in DOMAIN tens : MaskedDynamic(n) =>
              LostChannels(n) = Cardinality(stagePre.tens[n].mask.elems)
        /\ \A n \in Referenced(nodes) : tens[n].mask.elems = {}

\* C6 amended: the same for every dynamic tensor with more than one element;
\* a single-element tensor keeps its shape, and its mask is cleared too.
C6_MaskConsumedOnceButScalars ==
    RemovalPassDone =>
        /\ \A n \in DOMAIN tens : MaskedDynamic(n) =>
              IF Prod(stagePre.tens[n].shape) = 1
              THEN tens[n].shape = stagePre.tens[n].shape
              ELSE LostChannels(n) = Cardinality(stagePre.tens[n].mask.elems)
        /\ \A n \in Referenced(nodes) : tens[n].mask.elems = {}
C6_Witness ==
    /\ RemovalPassDone
    /\ scen = "chain"
    /\ stagePre.tens["Y"].mask = SetMask({P(1), P(3)})
    /\ stagePre.tens["Y"].shape = <<1, 8, 1, 1>>
    /\ tens["Y"].shape = <<1, 6, 1, 1>>
    /\ tens["Y"].mask = EmptyDict

\* the two graph patterns PruneChannels does not support
FusedBiasConv(node) == node.op_type = "Conv" /\ Len(node.input) = 3
DynamicWeight(node, t) ==
    node.op_type \in {"Conv", "MatMul"} /\ ~t[node.input[2]].init
Unsupported(ns, t) ==
    \E k \in 1..Len(ns) : FusedBiasConv(ns[k]) \/ DynamicWeight(ns[k], t)

\* C7: PruneChannels on a graph with a three-input Conv, or a Conv/MatMul
\* whose second input has no initializer, fails before Seeding runs and
\* leaves every mask, shape, initializer and attribute as it was.
C7_PrecheckBeforeMutation ==
    (rounds >= 1 /\ Unsupported(callPre.nodes, callPre.tens)) =>
        /\ pc = "failed"
        /\ err = [stage |-> "check", type |-> "AssertionError"]
        /\ ~inPrune
        /\ tens = callPre.tens
        /\ nodes = callPre.nodes
C7_Witness ==
    /\ rounds >= 1
    /\ pc = "failed"
    /\ err.stage = "check"
    /\ \E k \in 1..Len(nodes) : DynamicWeight(callPre.nodes[k], callPre.tens)
    /\ \E n \in DOMAIN tens : tens[n].mask.elems # {}

\* C8: when Seeding fails on a plain integer mask given to the constant
\* weight of a Conv or MatMul, no tensor's mask has been installed or
\* overwritten by that Seeding.
C8_SeedingFailsBeforeAnyWrite ==
    (/\ pc = "failed"
     /\ err = [stage |-> "apply", type |-> "AssertionError"]
     /\ \A e \in prune_spec[idx].val.elems : e[1] = "p") =>
        Masks(tens) = Masks(stagePre.tens)

\* C9: Seeding installs a mask on the constant weight of a Conv or MatMul
\* only if every element of the mask is an iX or oX index.
C9_EveryElementChecked ==
    pc = "apply" =>
        \A k \in 1..(idx - 1) :
            t_fc_cnv_w(nodes, tens, prune_spec[k].key) =>
                \A e \in prune_spec[k].val.elems : e[1] \in {"i", "o"}

DepthwiseCoupled(k) ==
    LET node == nodes[k]
    IN  /\ tens[node.input[1]].mask.elems = tens[node.output[1]].mask.elems
        /\ OutSide(tens[node.input[2]].mask.elems) = Ints(tens[node.output[1]].mask.elems)

\* C10 as stated: when a PropagateMasks sweep has visited every node, every
\* depthwise Conv's data input mask, output mask and weight out-set are equal.
C10_DepthwiseCoupledAfterSweep ==
    (pc = "prop" /\ idx > Len(nodes)) =>
        \A k \in 1..Len(nodes) : IsDepthwise(nodes[k]) => DepthwiseCoupled(k)

\* C10 amended: right after the PropagateMasks step of a depthwise Conv node,
\* before later nodes of the sweep write, its data input mask, output mask
\* and weight out-set are equal.
C10_DepthwiseCoupledAfterStep ==
    \A k \in 1..Len(nodes) :
        (JustStepped(k) /\ IsDepthwise(nodes[k])) => DepthwiseCoupled(k)
C10_Witness ==
    /\ scen = "dw"
    /\ JustStepped(1)
    /\ tens["X"].mask = SetMask({P(0), P(2)})
    /\ tens["Y"].mask = SetMask({P(0), P(2)})
    /\ tens["Wd"].mask = SetMask({O(0), O(2)})

----------------------------------------------------------------------------
(* Transfer functions, one node step at a time *)

DenseDotProd(node) ==
    \/ node.op_type = "MatMul"
    \/ node.op_type = "Conv" /\ node.hasgroup /\ node.group = 1
ElemsOf(t, n) == t[n].mask.elems
\* the union of the masks the tensors named in names carry in t
UnionOver(t, names) == UNION {ElemsOf(t, names[j]) : j \in 1..Len(names)}

\* C11: right after PropagateMasks has processed a dense dot-product node
\* (MatMul, or Conv with group = 1) the data input's mask is its old mask
\* united with the weight mask's input side, the output's mask is its old mask
\* united with the weight mask's output side, the weight's mask is
\* {in: new input mask, out: new output mask}, and an index that was only on
\* the output side is on no input side afterwards, and the other way round.
C11_DenseTransfer ==
    \A k \in 1..Len(nodes) :
        (JustStepped(k) /\ DenseDotProd(nodes[k])) =>
            LET x == nodes[k].input[1]
                w == nodes[k].input[2]
                y == nodes[k].output[1]
                old == stepPre.tens
                old_in == Ints(ElemsOf(old, x)) \cup InSide(ElemsOf(old, w))
                old_out == Ints(ElemsOf(old, y)) \cup OutSide(ElemsOf(old, w))
            IN  /\ ElemsOf(tens, x) = {P(c) : c \in old_in}
                /\ ElemsOf(tens, y) = {P(c) : c \in old_out}
                /\ ElemsOf(tens, w) = {I(c) : c \in Ints(ElemsOf(tens, x))}
                                        \cup {O(c) : c \in Ints(ElemsOf(tens, y))}
                /\ \A c \in old_out \ old_in :
                      P(c) \notin ElemsOf(tens, x) /\ I(c) \notin ElemsOf(tens, w)
                /\ \A c \in old_in \ old_out :
                      P(c) \notin ElemsOf(tens, y) /\ O(c) \notin ElemsOf(tens, w)

\* the MatMul processed with a weight mask naming row 2 and column 1
C11_Witness ==
    /\ scen = "mm"
    /\ JustStepped(1)
    /\ ElemsOf(stepPre.tens, "W") = {I(2), O(1)}
    /\ ElemsOf(tens, "X") = {P(2)}
    /\ ElemsOf(tens, "Y") = {P(1)}
    /\ ElemsOf(tens, "W") = {I(2), O(1)}

\* C12: right after PropagateMasks has processed a bidirectional elementwise
\* node (Mul, Div, MultiThreshold, Quant, Relu) every input and output tensor
\* of the node stores the same mask, the union of the masks those tensors had
\* before the step.
C12_BidirectionalTransfer ==
    \A k \in 1..Len(nodes) :
        (JustStepped(k) /\ nodes[k].op_type \in eltwise_ops_bidirectional) =>
            \A j \in 1..Len(IoNames(nodes[k])) :
                /\ tens[IoNames(nodes[k])[j]].mask.kind = "set"
                /\ ElemsOf(tens, IoNames(nodes[k])[j])
                      = UnionOver(stepPre.tens, IoNames(nodes[k]))

\* the chain's Relu processed with {1, 3} on its input and {2} on its output
C12_Witness ==
    /\ scen = "chain"
    /\ JustStepped(2)
    /\ ElemsOf(stepPre.tens, "Y") = {P(1), P(3)}
    /\ ElemsOf(stepPre.tens, "Z") = {P(2)}
    /\ ElemsOf(tens, "Y") = {P(1), P(2), P(3)}
    /\ ElemsOf(tens, "Z") = {P(1), P(2), P(3)}

\* C13: right after PropagateMasks has processed a backward-only elementwise
\* node (Add, Sub, BatchNormalization) the masks of its outputs have the
\* content they had before the step and every input's mask is the union of
\* the masks all its inputs and outputs had before the step.
C13_BackwardOnlyTransfer ==
    \A k \in 1..Len(nodes) :
        (JustStepped(k) /\ nodes[k].op_type \in eltwise_ops_bwdonly) =>
            /\ \A j \in 1..Len(nodes[k].output) :
                  ElemsOf(tens, nodes[k].output[j])
                    = ElemsOf(stepPre.tens, nodes[k].output[j])
            /\ \A j \in 1..Len(nodes[k].input) :
                  ElemsOf(tens, nodes[k].input[j])
                    = UnionOver(stepPre.tens, IoNames(nodes[k]))

\* the Add processed with {0} on one input and {1} on its output
C13_Witness ==
    /\ scen = "elt"
    /\ JustStepped(1)
    /\ ElemsOf(stepPre.tens, "X") = {P(0)}
    /\ ElemsOf(stepPre.tens, "Y") = {P(1)}
    /\ ElemsOf(tens, "X") = {P(0), P(1)}
    /\ ElemsOf(tens, "B") = {P(0), P(1)}
    /\ ElemsOf(tens, "Y") = {P(1)}

----------------------------------------------------------------------------
(* The PruneChannels cycle *)

\* the control transfers of one PruneChannels invocation that does not raise
StageOrder ==
    {<<"idle", "apply">>, <<"apply", "prop">>, <<"prop", "remove">>,
     <<"remove", "ret">>, <<"ret", "idle">>}
\* a stage moves on to its next prune-spec entry, node or tensor
MovesForward == idx' > idx \/ (idx' = idx /\ jdx' > jdx)

\* C14: an invocation of PruneChannels that does not raise runs Seeding, then
\* one Propagation sweep, then Removal, then returns: control passes from
\* one stage only to the next one in that order, and inside a stage only
\* forward, so no stage and no visit of a stage is repeated.
C14_StagesOnceInOrder ==
    [][(inPrune \/ inPrune') =>
          \/ pc' = "failed"
          \/ pc' # pc /\ <<pc, pc'>> \in StageOrder
          \/ pc' = pc /\ pc \in {"apply", "prop", "remove"} /\ MovesForward]_vars

\* an invocation on the chain graph has returned after its three stages
C14_Witness ==
    /\ scen = "chain"
    /\ pc = "idle"
    /\ lastCall = "PruneChannels"
    /\ Len(prune_spec) = MaxSpecLen
    /\ flags.prop
    /\ flags.remove

----------------------------------------------------------------------------
(* Removal on a MatMul weight *)

\* seq without the entries at the 0-based positions in S, order kept
Without(seq, S) ==
    LET keep == {k \in 1..Len(seq) : (k - 1) \notin S}
        nth(j) == CHOOSE k \in keep : Cardinality({m \in keep : m < k}) = j - 1
    IN  [j \in 1..Cardinality(keep) |-> seq[nth(j)]]
\* the first node, in graph order, that names tensor n
FirstUser(ns, n) ==
    CHOOSE k \in 1..Len(ns) :
        /\ \E j \in 1..Len(IoNames(ns[k])) : IoNames(ns[k])[j] = n
        /\ \A h \in 1..(k - 1) : \A j \in 1..Len(IoNames(ns[h])) : IoNames(ns[h])[j] # n
\* the constant MatMul weights that entered the Removal pass with a mask of
\* input-side and output-side entries
MaskedMatMulWeights ==
    {n \in Referenced(nodes) :
        /\ stagePre.tens[n].init
        /\ Len(stagePre.tens[n].axes) = 2
        /\ nodes[FirstUser(nodes, n)].op_type = "MatMul"
        /\ stagePre.tens[n].mask.kind = "set"
        /\ stagePre.tens[n].mask.elems # {}
        /\ \A e \in stagePre.tens[n].mask.elems : e[1] \in {"i", "o"}}

\* C15 as stated: Removal deletes from a constant MatMul weight with mask
\* {in: I, out: O} exactly the rows (axis 0) in I and the columns (axis 1) in
\* O, both counted in the array as it was before the pass, the rest in order.
C15_RowsAndColumnsRemoved ==
    RemovalPassDone =>
        \A w \in MaskedMatMulWeights :
            LET old == stagePre.tens[w]
            IN  tens[w].axes = <<Without(old.axes[1], InSide(old.mask.elems)),
                                 Without(old.axes[2], OutSide(old.mask.elems))>>

\* C15, amended: the rows in I are deleted unless the weight has one element
\* only, and the columns in O are deleted unless the weight has one element
\* only once its rows are gone; a deletion that is left out leaves that axis
\* as it was.
C15_RowsAndColumnsRemovedButScalars ==
    RemovalPassDone =>
        \A w \in MaskedMatMulWeights :
            LET old == stagePre.tens[w]
                rows == IF Len(old.axes[1]) * Len(old.axes[2]) = 1
                        THEN old.axes[1]
                        ELSE Without(old.axes[1], InSide(old.mask.elems))
                cols == IF Len(rows) * Len(old.axes[2]) = 1
                        THEN old.axes[2]
                        ELSE Without(old.axes[2], OutSide(old.mask.elems))
            IN  tens[w].axes = <<rows, cols>>

\* the (8, 4) weight with {in: {2}, out: {1}} has become (7, 3), original
\* row 2 and column 1 gone
C15_Witness ==
    /\ scen = "mm"
    /\ RemovalPassDone
    /\ "W" \in MaskedMatMulWeights
    /\ Lens(stagePre.tens["W"].axes) = <<8, 4>>
    /\ stagePre.tens["W"].mask.elems = {I(2), O(1)}
    /\ tens["W"].axes = <<<<0, 1, 3, 4, 5, 6, 7>>, <<0, 2, 3>>>>

----------------------------------------------------------------------------
(* Fixpoints of the transfer functions *)

\* node k's PropagateMasks step, run on masks t, changes no mask's content
NodeStable(t, ns, k) ==
    \A n \in DOMAIN t : ElemsOf(PropagateNode(t, ns[k]).tens, n) = ElemsOf(t, n)
IsFixpoint(t, ns) == \A k \in 1..Len(ns) : NodeStable(t, ns, k)
\* RemoveMaskedChannels is about to make its first visit inside PruneChannels
RemovalStarts == inPrune /\ pc = "remove" /\ idx = 1 /\ jdx = 1

\* C16 as stated: whenever RemoveMaskedChannels starts inside a PruneChannels
\* invocation, no node's transfer function would change any mask.
C16_FixpointAtRemoval == RemovalStarts => IsFixpoint(tens, nodes)

\* C16, amended: whenever RemoveMaskedChannels starts inside a PruneChannels
\* invocation whose Propagation sweep reported no change, no node's transfer
\* function would change any mask.
C16_FixpointAtRemovalAfterQuietSweep ==
    (RemovalStarts /\ ~flags.prop) => IsFixpoint(tens, nodes)

\* a seeded Relu whose sweep found both sides already equal
C16_Witness ==
    /\ scen = "tiny"
    /\ RemovalStarts
    /\ ~flags.prop
    /\ ElemsOf(tens, "X") = {P(0)}
    /\ ElemsOf(tens, "Y") = {P(0)}

----------------------------------------------------------------------------
(* The changed flag of a sweep *)

TwoInputs(node) == node.op_type \in {"MatMul", "Conv"} => Len(node.input) = 2
TwoInputDotProds == \A k \in 1..Len(nodes) : TwoInputs(nodes[k])
\* the step being taken changes the content of a mask of its node
StepContentChanged ==
    \E j \in 1..Len(IoNames(nodes[idx])) :
        ElemsOf(tens', IoNames(nodes[idx])[j]) # ElemsOf(tens, IoNames(nodes[idx])[j])
\* a sweep has visited every node and is about to return need_rerun
SweepDone == pc = "prop" /\ idx > Len(nodes)
SameContent(t1, t2) == \A n \in DOMAIN t1 : ElemsOf(t1, n) = ElemsOf(t2, n)

\* C17: a PropagateMasks sweep returns changed = true exactly when some node
\* step of it recomputed a mask of its node to a content other than the one
\* read (absent read as empty); and a sweep that returns false has left every
\* mask's content as it was before the sweep, at a fixpoint of every node's
\* transfer function.
C17_ChangedIffMasksDiffer ==
    /\ [][PropagateStepTaken =>
            need_rerun' = (need_rerun \/ StepContentChanged)]_vars
    /\ []((SweepDone /\ ~need_rerun) =>
            (SameContent(tens, stagePre.tens) /\ IsFixpoint(tens, nodes)))

\* C17, amended: the same on graphs whose MatMul/Conv nodes have two inputs;
\* the step of a MatMul/Conv node with another number of inputs reports a
\* change whatever the masks are.
C17_ChangedIffMasksDifferTwoInputs ==
    /\ [][PropagateStepTaken =>
            need_rerun' = (\/ need_rerun
                           \/ StepContentChanged
                           \/ ~TwoInputs(nodes[idx]))]_vars
    /\ []((SweepDone /\ ~need_rerun) =>
            (SameContent(tens, stagePre.tens) /\ IsFixpoint(tens, nodes)))

\* a sweep over the chain graph whose every step left the masks as read
C17_Witness ==
    /\ scen = "chain"
    /\ SweepDone
    /\ ~need_rerun
    /\ ElemsOf(tens, "W1") = {O(1), O(3)}
    /\ ElemsOf(tens, "Z") = {P(1), P(3)}
    /\ ElemsOf(tens, "W2") = {I(1), I(3)}

----------------------------------------------------------------------------
(* Repeated sweeps *)

\* the weights of the depthwise Conv nodes
DwWeights ==
    {nodes[k].input[2] : k \in {h \in 1..Len(nodes) :
                                  IsDepthwise(nodes[h]) /\ Len(nodes[h].input) >= 2}}
\* a depthwise Conv's weight is named by depthwise Convs only, as their weight
DwWeightsApart ==
    \A w \in DwWeights : \A k \in 1..Len(nodes) :
        (\E j \in 1..Len(IoNames(nodes[k])) : IoNames(nodes[k])[j] = w) =>
            /\ IsDepthwise(nodes[k])
            /\ \A j \in 1..Len(IoNames(nodes[k])) :
                  IoNames(nodes[k])[j] = w => j = 2
\* the measure the sweeps climb: the size of every mask, a depthwise weight
\* counted by its output-side entries less its input-side entries
RankOf(t, n) ==
    IF n \in DwWeights
    THEN Cardinality(OutSide(ElemsOf(t, n))) - Cardinality(InSide(ElemsOf(t, n)))
    ELSE Cardinality(ElemsOf(t, n))
RECURSIVE RankSum(_, _)
RankSum(t, S) ==
    IF S = {} THEN 0
    ELSE LET n == CHOOSE x \in S : TRUE
         IN RankOf(t, n) + RankSum(t, S \ {n})
Rank(t) == RankSum(t, DOMAIN t)
\* the channel indices the prune spec names, in their three encodings
SeedElems ==
    LET idxs == UNION {Chans(prune_spec[k].val.elems) : k \in 1..Len(prune_spec)}
    IN  {P(c) : c \in idxs} \cup {I(c) : c \in idxs} \cup {O(c) : c \in idxs}

----------------------------------------------------------------------------
(* Nodes of an unknown operator kind *)

UnknownOp(node) ==
    node.op_type \notin
        eltwise_ops_bidirectional \cup eltwise_ops_bwdonly \cup {"MatMul", "Conv"}
\* every mask the node would read is absent or a set
MasksReadable(t, node) ==
    \A j \in 1..Len(IoNames(node)) : t[IoNames(node)[j]].mask.kind # "dict"
AtUnknownNode == pc = "prop" /\ idx <= Len(nodes) /\ UnknownOp(nodes[idx])

----------------------------------------------------------------------------
(* Shape consistency *)

\* the shape of a tensor: its initializer's, if it has one
ShapeOf(t, n) == IF t[n].init THEN Lens(t[n].axes) ELSE t[n].shape
\* the weight of node k fits the node's data input and output in t
DotProdConsistent(t, ns, k) ==
    LET x == ShapeOf(t, ns[k].input[1])
        w == ShapeOf(t, ns[k].input[2])
        y == ShapeOf(t, ns[k].output[1])
    IN  IF ns[k].op_type = "MatMul"
        THEN w[1] = ChannelCount(x) /\ w[2] = ChannelCount(y)
        ELSE IF ns[k].group > 1
        THEN ns[k].group = w[1] /\ w[1] = ChannelCount(x)
        ELSE w[2] = ChannelCount(x) /\ w[1] = ChannelCount(y)
ShapeConsistent(t, ns) ==
    \A k \in 1..Len(ns) :
        ns[k].op_type \in {"MatMul", "Conv"} => DotProdConsistent(t, ns, k)

============================================================================
